---- MODULE Spec2Model ----
(***************************************************************************)
(* A model of src/query/Query.ts (vuex-orm): the identity index of a query *)
(* instance, the selection pipeline, the persistence pipeline with index   *)
(* rekeying, and the global/local lifecycle hooks.                         *)
(*                                                                         *)
(* Table keys are JavaScript property names.  Only integer-like keys are   *)
(* modelled, so the key "n" is the natural n and Object.keys enumerates a  *)
(* map in ascending numeric order.  A primary-key VALUE is a number or a   *)
(* string: Num(n) is the number n, Str(n) the string "n"; both address the *)
(* table key n (ToKey).                                                    *)
(***************************************************************************)
EXTENDS Integers, Sequences, FiniteSets, TLC

VARIABLES data, hooks, lastHookId, localHooks,
          entity, idFilter, cancelIdFilter, joinedIdFilter, wheres,
          orders, offsetNumber, limitNumber,
          op, pre, prehooks, result, log, lookedUp, scan, made

vars == <<data, hooks, lastHookId, localHooks,
          entity, idFilter, cancelIdFilter, joinedIdFilter, wheres,
          orders, offsetNumber, limitNumber,
          op, pre, prehooks, result, log, lookedUp, scan, made>>

queryVars == <<entity, idFilter, cancelIdFilter, joinedIdFilter, wheres,
               orders, offsetNumber, limitNumber>>

-----------------------------------------------------------------------------
(* Bounds *)

MaxId == 2
MaxStrId == 1
MaxWheres == 2
MaxHooks == 2

Ids == 1..MaxId
Names == {"a", "b"}

-----------------------------------------------------------------------------
(* Values, keys and maps *)

Num(n) == <<"num", n>>
Str(n) == <<"str", n>>
Null == <<"null", 0>>
Undef == <<"undefined", 0>>
NoKey == 0 - 1
\* A Set of primary-key values is the sequence of its members in insertion
\* order; null (no Set) is the one-element sequence holding undefined.
null == <<Undef>>

\* String(v) used as a property name: the number 1 and the string "1" are
\* the same key.
ToKey(v) == v[2]

EmptyMap == [k \in {} |-> Undef]

\* { ...a, ...b }
Spread(a, b) ==
  [k \in (DOMAIN a) \cup (DOMAIN b) |-> IF k \in DOMAIN b THEN b[k] ELSE a[k]]

\* delete m[key]
Remove(m, key) == [k \in (DOMAIN m) \ {key} |-> m[k]]

\* m[key] = v
Put(m, key, v) == [k \in (DOMAIN m) \cup {key} |-> IF k = key THEN v ELSE m[k]]

RECURSIVE Ascending(_)
Ascending(S) ==
  IF S = {} THEN <<>>
  ELSE LET m == CHOOSE x \in S : \A y \in S : x <= y
       IN <<m>> \o Ascending(S \ {m})

\* Object.keys(m) for integer-like keys
Keys(m) == Ascending(DOMAIN m)

Range(s) == {s[i] : i \in 1..Len(s)}

-----------------------------------------------------------------------------
(* Models of one inheritance hierarchy sharing the table of "Person" *)

Models == {"Person", "Adult", "Child"}
NoModel == "none"

getBase(name) == "Person"

appliedOnBase(name) == getBase(name) = name

\* inst instanceof model
InstanceOf(inst, model) == model = "Person" \/ inst.model = model

getTypeKeyValueFromModel(model) ==
  CASE model = "Adult" -> "ADULT"
    [] model = "Child" -> "CHILD"
    [] OTHER -> "PERSON"

\* The constructor selected by the discriminator field of a record.
getModelFromRecord(record) ==
  CASE record.type = "ADULT" -> "Adult"
    [] record.type = "CHILD" -> "Child"
    [] record.type = "PERSON" -> "Person"
    [] OTHER -> NoModel

UndefinedRecord ==
  [id |-> Undef, name |-> "undefined", type |-> "undefined", dollarId |-> NoKey]

\* new model(record): every field the record lacks takes its default.
New(model, record) ==
  [id       |-> IF record.id = Undef THEN Null ELSE record.id,
   name     |-> IF record.name = "undefined" THEN "" ELSE record.name,
   type     |-> record.type,
   dollarId |-> record.dollarId,
   model    |-> model]

\* The own properties of an instance, as a plain record.
Plain(inst) ==
  [id |-> inst.id, name |-> inst.name, type |-> inst.type, dollarId |-> inst.dollarId]

\* { ...instance, ...record }
Merge(inst, record) ==
  [id       |-> IF record.id = Undef THEN inst.id ELSE record.id,
   name     |-> IF record.name = "undefined" THEN inst.name ELSE record.name,
   type     |-> IF record.type = "undefined" THEN inst.type ELSE record.type,
   dollarId |-> IF record.dollarId = NoKey THEN inst.dollarId ELSE record.dollarId]

\* String(model.getIndexIdFromRecord(instance))
getIndexIdFromRecord(inst) == ToKey(inst.id)

hydrate(model, record, forceModel) ==
  IF forceModel # NoModel THEN New(forceModel, record)
  ELSE IF record = UndefinedRecord THEN New(model, record)
  ELSE LET newModel == getModelFromRecord(record)
       IN IF newModel # NoModel THEN New(newModel, record)
          ELSE IF ~appliedOnBase(model)
               THEN New(model, [record EXCEPT !.type = getTypeKeyValueFromModel(model)])
               ELSE New(model, record)

hydrateMany(model, records) ==
  [id \in DOMAIN records |-> hydrate(model, records[id], NoModel)]

\* map(instances)
map(instances) == [i \in 1..Len(Keys(instances)) |-> instances[Keys(instances)[i]]]

-----------------------------------------------------------------------------
(* Lifecycle hooks *)

BeforeEvents == {"beforeCreate", "beforeUpdate", "beforeDelete"}
AfterEvents == {"afterCreate", "afterUpdate", "afterDelete"}
RetrieveEvents == {"beforeSelect", "afterWhere", "afterOrderBy", "afterLimit"}
Events == BeforeEvents \cup AfterEvents \cup RetrieveEvents

\* The callbacks a caller registers are closures; the model knows them by
\* what they return.  "veto1" returns false for the model whose primary key
\* is the number 1 and undefined for any other, "pass" returns undefined.
Callbacks == {"pass", "veto1"}
NoHook == "none"

ReturnsFalse(callback, m) == callback = "veto1" /\ m.id = Num(1)

NoHooks == [on \in Events |-> <<>>]

Call(on, hookId, m, callback) ==
  [on |-> on, hook |-> hookId, key |-> getIndexIdFromRecord(m),
   ret |-> ReturnsFalse(callback, m)]

\* cleanGlobalHooksOn emptying the list of the event
cleanGlobalHooksOn_dropsAll(hs, on) == [hs EXCEPT ![on] = <<>>]

cleanGlobalHooksOn(hs, on) ==
  [hs EXCEPT ![on] = SelectSeq(hs[on], LAMBDA h : ~h.once)]

\* hooks.some(hook => callback(hook.callback) === false ? false : true):
\* `some` stops at the first callback for which the arrow function is true,
\* and is false only when it was false for every hook.
executeGlobalBeforeMutationHooks(on, m, hs) ==
  LET list == hs[on]
      truthy == {i \in 1..Len(list) : ~ReturnsFalse(list[i].callback, m)}
      last == IF truthy = {} THEN Len(list)
              ELSE CHOOSE i \in truthy : \A j \in truthy : i <= j
      some == truthy # {}
  IN IF Len(list) <= 0
     THEN [veto |-> FALSE, hooks |-> hs, log |-> <<>>]
     ELSE [veto  |-> some = FALSE,
           hooks |-> cleanGlobalHooksOn(hs, on),
           log   |-> [i \in 1..last |-> Call(on, list[i].id, m, list[i].callback)]]

\* executeGlobalAfterMutationHooks keeping the hooks to be run once
executeGlobalAfterMutationHooks_keepsOnce(on, m, hs) ==
  [hooks |-> hs,
   log   |-> [i \in 1..Len(hs[on]) |-> Call(on, hs[on][i].id, m, hs[on][i].callback)]]

executeGlobalAfterMutationHooks(on, m, hs) ==
  LET list == hs[on]
  IN [hooks |-> cleanGlobalHooksOn(hs, on),
      log   |-> [i \in 1..Len(list) |-> Call(on, list[i].id, m, list[i].callback)]]

\* The call to the local hook of the query's model, when it has one
executeLocalHook(on, m) ==
  IF localHooks[on] = NoHook THEN <<>> ELSE <<Call(on, 0, m, localHooks[on])>>

\* executeBeforeHook calling the local hook after the global ones
executeBeforeHook_globalFirst(on, m, hs) ==
  IF localHooks[on] # NoHook /\ ReturnsFalse(localHooks[on], m)
  THEN [veto |-> TRUE, hooks |-> hs, log |-> executeLocalHook(on, m)]
  ELSE [executeGlobalBeforeMutationHooks(on, m, hs) EXCEPT
          !.log = @ \o executeLocalHook(on, m)]

\* executeBeforeCreateHook, executeBeforeUpdateHook, executeBeforeDeleteHook:
\* the local hook of the query's model, then the global ones.
executeBeforeHook(on, m, hs) ==
  IF localHooks[on] # NoHook /\ ReturnsFalse(localHooks[on], m)
  THEN [veto |-> TRUE, hooks |-> hs, log |-> executeLocalHook(on, m)]
  ELSE [executeGlobalBeforeMutationHooks(on, m, hs) EXCEPT
          !.log = executeLocalHook(on, m) \o @]

\* executeAfterCreateHook, executeAfterUpdateHook, executeAfterDeleteHook
executeAfterHook(on, m, hs) ==
  [executeGlobalAfterMutationHooks(on, m, hs) EXCEPT
     !.log = executeLocalHook(on, m) \o @]

\* The batch after the before-hooks of the model under id returned r
Sieved(acc, id, r) ==
  [models |-> IF r.veto THEN Remove(acc.models, id) ELSE acc.models,
   hooks  |-> r.hooks,
   log    |-> acc.log \o r.log]

\* executeBeforeCreateHookOnModels, executeBeforeUpdateHookOnModels
RECURSIVE executeBeforeHookOn(_, _, _)
executeBeforeHookOn(on, keys, acc) ==
  IF keys = <<>> THEN acc
  ELSE executeBeforeHookOn(on, Tail(keys),
         Sieved(acc, Head(keys),
                executeBeforeHook(on, acc.models[Head(keys)], acc.hooks)))

executeBeforeHookOnModels(on, models, hs) ==
  executeBeforeHookOn(on, Keys(models), [models |-> models, hooks |-> hs, log |-> <<>>])

Notified(acc, r) == [hooks |-> r.hooks, log |-> acc.log \o r.log]

\* executeAfterCreateHookOnModels, executeAfterUpdateHookOnModels
RECURSIVE executeAfterHookOn(_, _, _, _)
executeAfterHookOn(on, keys, models, acc) ==
  IF keys = <<>> THEN acc
  ELSE executeAfterHookOn(on, Tail(keys), models,
         Notified(acc, executeAfterHook(on, models[Head(keys)], acc.hooks)))

executeAfterHookOnModels(on, models, hs) ==
  executeAfterHookOn(on, Keys(models), models, [hooks |-> hs, log |-> <<>>])

-----------------------------------------------------------------------------
(* Persistence pipeline.  Every operator takes the table d and the hook   *)
(* registry hs it starts from and returns the ones it leaves behind with   *)
(* the calls made to hooks and the value handed back to the caller.        *)

\* Predicates (closures over one model) the callers pass, by what they test.
Eval(condition, m) ==
  CASE condition.kind = "true" -> TRUE
    [] condition.kind = "name" -> m.name = condition.name
    [] condition.kind = "dollarId" -> m.dollarId = condition.key
    [] condition.kind = "instanceof" -> InstanceOf(m, condition.model)

True == [kind |-> "true"]
NameIs(n) == [kind |-> "name", name |-> n]

emptyState(model, d) ==
  IF appliedOnBase(model) THEN EmptyMap
  ELSE [id \in {k \in DOMAIN d : ~InstanceOf(d[k], model)} |-> d[id]]

\* The end of a commit: the instances the before-hooks kept are spread over
\* the table d, and handed back as a collection.
Committed(d, before, after) ==
  [data      |-> Spread(d, before.models),
   hooks     |-> after.hooks,
   log       |-> before.log \o after.log,
   instances |-> before.models,
   result    |-> map(before.models)]

\* The commit from the outcome of the before-hooks on
Commit(on, d, before) ==
  Committed(d, before, executeAfterHookOnModels(on, before.models, before.hooks))

commitCreateOnRecords(instances, d, hs) ==
  Commit("afterCreate", d, executeBeforeHookOnModels("beforeCreate", instances, hs))

createMany(model, records, d, hs) ==
  commitCreateOnRecords(hydrateMany(model, records), emptyState(model, d), hs)

\* insertMany writing its instances over an emptied table
insertMany_replace(model, records, d, hs) ==
  commitCreateOnRecords(hydrateMany(model, records), EmptyMap, hs)

insertMany(model, records, d, hs) ==
  commitCreateOnRecords(hydrateMany(model, records), d, hs)

\* What a mutator closure assigns to the primary key: a value, or a value
\* computed from the one the instance has.  Successor is the closure
\* record => { record.id = record.id + 1 }, Exchange the closure
\* record => { record.id = MaxId + 1 - record.id }.
Successor == <<"closure", 1>>
Exchange == <<"closure", 2>>

Assigned(instance, v) ==
  IF v = Successor THEN Num(ToKey(instance.id) + 1)
  ELSE IF v = Exchange THEN Num(MaxId + 1 - ToKey(instance.id))
  ELSE v

\* The instance after the closure ran on it
Mutate(instance, record) ==
  Merge(instance, [record EXCEPT !.id = Assigned(instance, @)])

\* processUpdate hydrating the merged record as the query's model decides
processUpdate_rehydrate(model, update, instance) ==
  IF update.closure
  THEN Mutate(instance, update.record) @@ [model |-> instance.model]
  ELSE hydrate(model, Merge(instance, update.record), NoModel)

\* The update of one instance.  A closure mutates the instance it is given;
\* a record is spread over a copy, hydrated as the instance's own model when
\* that is not the query's.
processUpdate(model, update, instance) ==
  IF update.closure
  THEN Mutate(instance, update.record) @@ [model |-> instance.model]
  ELSE IF instance.model # model
       THEN hydrate(model, Merge(instance, update.record), instance.model)
       ELSE hydrate(model, Merge(instance, update.record), NoModel)

\* A batch of updated instances.  cells[key].i is the instance held under
\* key, cells[key].o the table key at which that very object is stored (a
\* closure updates the stored object itself), NoKey for a fresh object.
Instances(cells) == [k \in DOMAIN cells |-> cells[k].i]

\* The reduce runs over the keys the batch had at the start and moves
\* entries inside that same batch.
RECURSIVE updateIndexesOn(_, _)
updateIndexesOn(keys, cells) ==
  IF keys = <<>> THEN cells
  ELSE LET key == Head(keys)
           cell == cells[key]
           id == getIndexIdFromRecord(cell.i)
       IN IF key # id
          THEN updateIndexesOn(Tail(keys),
                 Remove(Put(cells, id, [cell EXCEPT !.i.dollarId = id]), key))
          ELSE updateIndexesOn(Tail(keys), cells)

updateIndexes(cells) == updateIndexesOn(Keys(cells), cells)

\* The table once the objects of the batch that are stored in it carry the
\* $id that updateIndexes wrote on them.
Stored(d, cells) ==
  [k \in DOMAIN d |->
     IF \E j \in DOMAIN cells : cells[j].o = k
     THEN cells[CHOOSE j \in DOMAIN cells : cells[j].o = k].i
     ELSE d[k]]

commitUpdateOnRecords(moved, d, hs) ==
  Commit("afterUpdate", Stored(d, moved),
         executeBeforeHookOnModels("beforeUpdate", Instances(moved), hs))

commitUpdate(cells, d, hs) == commitUpdateOnRecords(updateIndexes(cells), d, hs)

\* The batch of one update: the matched instances after processUpdate, and
\* the table as the closures left it.
Batch(model, update, keys, d) ==
  [k \in keys |-> [i |-> processUpdate(model, update, d[k]),
                   o |-> IF update.closure THEN k ELSE NoKey]]

Mutated(model, update, keys, d) ==
  IF update.closure
  THEN [k \in DOMAIN d |-> IF k \in keys THEN processUpdate(model, update, d[k]) ELSE d[k]]
  ELSE d

\* instances[id] of a committed batch, as an item
Item(c, id) ==
  [c EXCEPT !.result = IF id \in DOMAIN c.instances THEN <<c.instances[id]>> ELSE <<>>]

\* updateById treating a missing id as a record to insert
updateById_upsert(model, update, id, d, hs) ==
  IF id \notin DOMAIN d
  THEN insertMany(model, [k \in {id} |-> [update.record EXCEPT !.id = Num(id), !.dollarId = id]], d, hs)
  ELSE Item(commitUpdate(Batch(model, update, {id}, d),
                         Mutated(model, update, {id}, d), hs), id)

updateById(model, update, id, d, hs) ==
  IF id \notin DOMAIN d
  THEN [data |-> d, hooks |-> hs, log |-> <<>>, result |-> <<>>]
  ELSE Item(commitUpdate(Batch(model, update, {id}, d),
                         Mutated(model, update, {id}, d), hs), id)

updateByCondition(model, update, condition, d, hs) ==
  LET keys == {k \in DOMAIN d : Eval(condition, d[k])}
  IN commitUpdate(Batch(model, update, keys, d), Mutated(model, update, keys, d), hs)

\* combine hydrating the submitted record alone, without the stored one
combine_noMerge(model, records, d) ==
  [id \in (DOMAIN records) \cap (DOMAIN d) |->
     [i |-> hydrate(model, records[id], NoModel), o |-> NoKey]]

combine(model, records, d) ==
  [id \in (DOMAIN records) \cap (DOMAIN d) |->
     [i |-> IF d[id].model # model
            THEN hydrate(model, Merge(d[id], records[id]), d[id].model)
            ELSE hydrate(model, Merge(d[id], records[id]), NoModel),
      o |-> NoKey]]

updateMany(model, records, d, hs) ==
  commitUpdate(combine(model, records, d), d, hs)

\* the collection of insertOrUpdateMany with the updated records first
insertOrUpdateCollection_updatedFirst(inserted, updated) ==
  [data   |-> updated.data,
   hooks  |-> updated.hooks,
   log    |-> inserted.log \o updated.log,
   result |-> updated.result \o inserted.result]

\* [...this.insertMany(toBeInserted), ...this.updateMany(toBeUpdated)]
insertOrUpdateCollection(inserted, updated) ==
  [data   |-> updated.data,
   hooks  |-> updated.hooks,
   log    |-> inserted.log \o updated.log,
   result |-> inserted.result \o updated.result]

\* updateMany runs on the table and the registry insertMany left
insertThenUpdate(model, toBeUpdated, inserted) ==
  insertOrUpdateCollection(inserted,
    updateMany(model, toBeUpdated, inserted.data, inserted.hooks))

insertOrUpdateMany(model, records, d, hs) ==
  insertThenUpdate(model,
    [id \in {k \in DOMAIN records : k \in DOMAIN d} |-> records[id]],
    insertMany(model, [id \in {k \in DOMAIN records : k \notin DOMAIN d} |-> records[id]],
               d, hs))

\* filterData with the predicate of deleteByCondition: one pass over the
\* keys of the table, hooks fired model by model.
Deleted(acc, m, before, after) ==
  [acc EXCEPT !.hooks = after.hooks,
              !.log = @ \o before.log \o after.log,
              !.result = Append(@, m)]

\* The record the condition accepted, once its before-hooks have run
Accepted(acc, id, m, before) ==
  IF before.veto
  THEN [acc EXCEPT !.data = Put(@, id, m),
                   !.hooks = before.hooks,
                   !.log = @ \o before.log]
  ELSE Deleted(acc, m, before, executeAfterHook("afterDelete", m, before.hooks))

Filtered(condition, acc, id, m) ==
  IF ~Eval(condition, m)
  THEN [acc EXCEPT !.data = Put(@, id, m)]
  ELSE Accepted(acc, id, m, executeBeforeHook("beforeDelete", m, acc.hooks))

RECURSIVE deleteOn(_, _, _, _)
deleteOn(keys, condition, d, acc) ==
  IF keys = <<>> THEN acc
  ELSE deleteOn(Tail(keys), condition, d, Filtered(condition, acc, Head(keys), d[Head(keys)]))

deleteByCondition(condition, d, hs) ==
  deleteOn(Keys(d), condition, d,
           [data |-> EmptyMap, hooks |-> hs, log |-> <<>>, result |-> <<>>])

find(id, d) == IF id \in DOMAIN d THEN <<d[id]>> ELSE <<>>

findIn(idList, d) ==
  LET found == SelectSeq(idList, LAMBDA id : id \in DOMAIN d)
  IN [i \in 1..Len(found) |-> d[found[i]]]

deleteById(id, d, hs) ==
  IF find(id, d) = <<>>
  THEN [data |-> d, hooks |-> hs, log |-> <<>>, result |-> <<>>]
  ELSE LET r == deleteByCondition([kind |-> "dollarId", key |-> d[id].dollarId], d, hs)
       IN [r EXCEPT !.result = IF r.result = <<>> THEN <<>> ELSE <<r.result[1]>>]

deleteAll(model, d, hs) ==
  IF appliedOnBase(model)
  THEN deleteByCondition(True, d, hs)
  ELSE deleteByCondition([kind |-> "instanceof", model |-> model], d, hs)

\* persist: an empty normalized input empties the table under `create` and
\* does nothing else; otherwise the batch goes to <method>Many of a new query
\* on the same entity.
persist(model, records, method, d, hs) ==
  IF DOMAIN records = {}
  THEN [data |-> IF method = "create" THEN emptyState(model, d) ELSE d,
        hooks |-> hs, log |-> <<>>, result |-> <<>>]
  ELSE CASE method = "create" -> createMany(model, records, d, hs)
         [] method = "insert" -> insertMany(model, records, d, hs)
         [] method = "update" -> updateMany(model, records, d, hs)
         [] method = "insertOrUpdate" -> insertOrUpdateMany(model, records, d, hs)

\* The options of persist give, for each method, the list of entities to
\* persist by that method (a missing list is an empty one).
\* getPersistMethod looking the lists up from insertOrUpdate to create
getPersistMethod_lastFirst(entityName, method, options) ==
  IF entityName \in options["insertOrUpdate"] THEN "insertOrUpdate"
  ELSE IF entityName \in options["update"] THEN "update"
  ELSE IF entityName \in options["insert"] THEN "insert"
  ELSE IF entityName \in options["create"] THEN "create"
  ELSE method

getPersistMethod(entityName, method, options) ==
  IF entityName \in options["create"] THEN "create"
  ELSE IF entityName \in options["insert"] THEN "insert"
  ELSE IF entityName \in options["update"] THEN "update"
  ELSE IF entityName \in options["insertOrUpdate"] THEN "insertOrUpdate"
  ELSE method

\* What persist returns, with the method it used for the entity
Persisted(r, used) ==
  [data |-> r.data, hooks |-> r.hooks, log |-> r.log, result |-> r.result, used |-> used]

\* persist(data, method, options) for a batch of one entity
persistWith(model, records, method, options, d, hs) ==
  IF DOMAIN records = {}
  THEN Persisted(persist(model, records, method, d, hs), "none")
  ELSE Persisted(persist(model, records, getPersistMethod(model, method, options), d, hs),
                 getPersistMethod(model, method, options))

\* The condition of update: nothing, an id (a number or a string), or a
\* predicate closure.
NoCondition == [kind |-> "undefined"]
ById(v) == [kind |-> "id", id |-> v]
ByPredicate(c) == [kind |-> "function", condition |-> c]

\* The string with no character
EmptyString == <<"str", NoKey>>

\* !condition: undefined, the number 0 and the empty string are falsy
Falsy(condition) ==
  \/ condition.kind = "undefined"
  \/ condition.kind = "id" /\ condition.id \in {Num(0), EmptyString}

\* throw new Error(...) before anything is read or written
Raised(d, hs) ==
  [data |-> d, hooks |-> hs, log |-> <<>>, result |-> <<>>, raised |-> TRUE]

Completed(r) ==
  [data |-> r.data, hooks |-> r.hooks, log |-> r.log, result |-> r.result,
   raised |-> FALSE]

\* The normalized form of one record that carries its primary key
normalize(record) ==
  [k \in {ToKey(record.id)} |-> [record EXCEPT !.dollarId = ToKey(record.id)]]

\* update(data, condition): the data is an array of records, a mutator closure
\* or one record; composite says that the primary key of the model is an
\* array of fields.
update(model, composite, payload, condition, d, hs) ==
  IF payload.array
  THEN Completed(persist(model, payload.records, "update", d, hs))
  ELSE IF payload.closure
  THEN IF Falsy(condition) THEN Raised(d, hs)
       ELSE IF condition.kind = "function"
       THEN Completed(updateByCondition(model, payload, condition.condition, d, hs))
       ELSE Completed(updateById(model, payload, ToKey(condition.id), d, hs))
  ELSE IF condition.kind = "function"
  THEN Completed(updateByCondition(model, payload, condition.condition, d, hs))
  ELSE IF Falsy(condition)
  THEN Completed(persist(model, normalize(payload.record), "update", d, hs))
  ELSE IF composite THEN Raised(d, hs)
  ELSE Completed(updateById(model, payload, ToKey(condition.id), d, hs))

-----------------------------------------------------------------------------
(* Query builder and identity index.  A query is the record of the fields  *)
(* of one Query instance.                                                  *)

primaryKey == "id"

\* A where value is a scalar or an array.
Scalar(v) == [array |-> FALSE, vals |-> <<v>>]
Array(vs) == [array |-> TRUE, vals |-> vs]

\* The default limit, Math.pow(2, 53) - 1: more than any table holds
Unlimited == 1000000

Query == [entity |-> entity, idFilter |-> idFilter, cancelIdFilter |-> cancelIdFilter,
          joinedIdFilter |-> joinedIdFilter, wheres |-> wheres,
          orders |-> orders, offsetNumber |-> offsetNumber, limitNumber |-> limitNumber]

newQuery(name) ==
  [entity |-> name, idFilter |-> null, cancelIdFilter |-> FALSE,
   joinedIdFilter |-> null, wheres |-> <<>>,
   orders |-> <<>>, offsetNumber |-> 0, limitNumber |-> Unlimited]

Has(set, v) == \E i \in 1..Len(set) : set[i] = v

\* new Set(values): the distinct members in the order of first insertion
RECURSIVE NewSet(_)
NewSet(values) ==
  IF values = <<>> THEN <<>>
  ELSE LET init == NewSet(SubSeq(values, 1, Len(values) - 1))
           v == values[Len(values)]
       IN IF Has(init, v) THEN init ELSE Append(init, v)

isIdfilterable(q, field) == field = primaryKey /\ ~q.cancelIdFilter

\* setIdFilter replacing the accumulated set instead of intersecting it
setIdFilter_replace(q, value) == [q EXCEPT !.idFilter = NewSet(value.vals)]

setIdFilter(q, value) ==
  IF q.idFilter = null
  THEN [q EXCEPT !.idFilter = NewSet(value.vals)]
  ELSE [q EXCEPT !.idFilter = NewSet(SelectSeq(value.vals, LAMBDA v : Has(q.idFilter, v)))]

\* setJoinedIdFilter replacing the accumulated set instead of intersecting it
setJoinedIdFilter_replace(q, values) == [q EXCEPT !.joinedIdFilter = NewSet(values)]

setJoinedIdFilter(q, values) ==
  IF q.joinedIdFilter = null
  THEN [q EXCEPT !.joinedIdFilter = NewSet(values)]
  ELSE [q EXCEPT !.joinedIdFilter = NewSet(SelectSeq(values, LAMBDA v : Has(q.joinedIdFilter, v)))]

where(q, field, value) ==
  LET f == IF isIdfilterable(q, field) THEN setIdFilter(q, value) ELSE q
  IN [f EXCEPT !.wheres = Append(@, [field |-> field, value |-> value, boolean |-> "and"])]

\* orWhere leaving the id filter in use
orWhere_keepsIdFilter(q, field, value) ==
  [q EXCEPT !.wheres = Append(@, [field |-> field, value |-> value, boolean |-> "or"])]

orWhere(q, field, value) ==
  [q EXCEPT !.cancelIdFilter = TRUE,
            !.wheres = Append(@, [field |-> field, value |-> value, boolean |-> "or"])]

orderBy(q, field, direction) ==
  [q EXCEPT !.orders = Append(@, [field |-> field, direction |-> direction])]

offset(q, n) == [q EXCEPT !.offsetNumber = n]

limit(q, n) == [q EXCEPT !.limitNumber = n]

whereId(q, v) == where(q, primaryKey, Scalar(v))

whereIdIn(q, values) == where(q, primaryKey, Array(values))

whereFk(q, field, value) ==
  IF field = primaryKey THEN setJoinedIdFilter(q, value.vals)
  ELSE where(q, field, Array(value.vals))

finalizeIdFilter(q) ==
  IF ~q.cancelIdFilter \/ q.idFilter = null THEN q
  ELSE [where(q, primaryKey, Array(q.idFilter)) EXCEPT !.idFilter = null]

\* Object.keys(this.state.data): the keys are strings
AllKeys(d) == [i \in 1..Len(Keys(d)) |-> Str(Keys(d)[i])]

\* getIdsToLookup joining the two filters instead of intersecting them
getIdsToLookup_union(q, d) ==
  IF q.idFilter # null /\ q.joinedIdFilter # null
  THEN NewSet(q.idFilter \o q.joinedIdFilter)
  ELSE IF q.idFilter # null THEN q.idFilter
  ELSE IF q.joinedIdFilter # null THEN q.joinedIdFilter
  ELSE AllKeys(d)

getIdsToLookup(q, d) ==
  IF q.idFilter # null /\ q.joinedIdFilter # null
  THEN SelectSeq(q.idFilter, LAMBDA id : Has(q.joinedIdFilter, id))
  ELSE IF q.idFilter # null THEN q.idFilter
  ELSE IF q.joinedIdFilter # null THEN q.joinedIdFilter
  ELSE AllKeys(d)

\* The instances of a list of ids: a key the table lacks reads undefined,
\* which is hydrated; a derived query drops what is not of its model.
Lookup(q, ids, d) ==
  LET hydrated(id) == IF ToKey(id) \in DOMAIN d THEN d[ToKey(id)]
                      ELSE hydrate(q.entity, UndefinedRecord, NoModel)
      all == [i \in 1..Len(ids) |-> hydrated(ids[i])]
  IN SelectSeq(all, LAMBDA m : appliedOnBase(q.entity) \/ InstanceOf(m, q.entity))

records(q, d) == Lookup(finalizeIdFilter(q), getIdsToLookup(finalizeIdFilter(q), d), d)

\* Filter.where: a record is kept when all its `and` clauses hold or one of
\* its `or` clauses does; an array value is a membership test.
whereOnRecord(w, m) ==
  LET v == IF w.field = primaryKey THEN m.id ELSE m.name
  IN IF w.value.array THEN Has(w.value.vals, v) ELSE v = w.value.vals[1]

FilterWhere(ws, models) ==
  LET ands == {i \in 1..Len(ws) : ws[i].boolean = "and"}
      ors == {i \in 1..Len(ws) : ws[i].boolean = "or"}
      comparator(m) == \/ ands # {} /\ \A i \in ands : whereOnRecord(ws[i], m)
                       \/ ors # {} /\ \E i \in ors : whereOnRecord(ws[i], m)
  IN IF ws = <<>> THEN models ELSE SelectSeq(models, comparator)

\* A retrieve callback returns the collection it is given ("pass") or that
\* collection without its first record ("tail").
Apply(callback, models) ==
  IF callback = "tail" /\ models # <<>> THEN Tail(models) ELSE models

RECURSIVE Reduce(_, _)
Reduce(list, models) ==
  IF list = <<>> THEN models ELSE Reduce(Tail(list), Apply(Head(list).callback, models))

executeLocalRetrieveHook(on, models) ==
  IF localHooks[on] = NoHook THEN models ELSE Apply(localHooks[on], models)

\* The call of a retrieve callback: it is given a collection, not a model
RetrieveCall(on, hookId) == [on |-> on, hook |-> hookId, key |-> NoKey, ret |-> FALSE]

executeGlobalRetrieveHook(on, models, hs) ==
  [models |-> Reduce(hs[on], models),
   hooks  |-> cleanGlobalHooksOn(hs, on),
   log    |-> [i \in 1..Len(hs[on]) |-> RetrieveCall(on, hs[on][i].id)]]

\* The stage after the local hook was called (or not) and the global ones
\* returned g
Staged(s, local, g) ==
  [models |-> g.models, hooks |-> g.hooks, log |-> s.log \o local \o g.log]

\* A stage of select is the collection so far with the hook registry and the
\* calls made to hooks
executeRetrieveHook(on, s) ==
  Staged(s,
         IF localHooks[on] = NoHook THEN <<>> ELSE <<RetrieveCall(on, 0)>>,
         executeGlobalRetrieveHook(on, executeLocalRetrieveHook(on, s.models), s.hooks))

filterWhere(q, s) == [s EXCEPT !.models = FilterWhere(q.wheres, @)]

\* Filter.orderBy, for orders on the primary key: a stable sort in the
\* direction of the first order (primary keys are distinct, so a later
\* order decides nothing).
Precedes(a, b, direction) ==
  IF direction = "asc" THEN ToKey(a.id) < ToKey(b.id) ELSE ToKey(a.id) > ToKey(b.id)

Placed(m, sorted, direction) ==
  SelectSeq(sorted, LAMBDA x : Precedes(x, m, direction))
    \o <<m>> \o SelectSeq(sorted, LAMBDA x : ~Precedes(x, m, direction))

RECURSIVE SortedBy(_, _)
SortedBy(models, direction) ==
  IF models = <<>> THEN <<>>
  ELSE Placed(Head(models), SortedBy(Tail(models), direction), direction)

FilterOrderBy(os, models) ==
  IF os = <<>> THEN models ELSE SortedBy(models, os[1].direction)

\* Filter.limit: records.slice(offset, offset + limit)
FilterLimit(off0, lim, models) ==
  SubSeq(models, off0 + 1, IF off0 + lim < Len(models) THEN off0 + lim ELSE Len(models))

filterOrderBy(q, s) == [s EXCEPT !.models = FilterOrderBy(q.orders, @)]

filterLimit(q, s) == [s EXCEPT !.models = FilterLimit(q.offsetNumber, q.limitNumber, @)]

Selected(f, d, s) ==
  [query |-> f, hooks |-> s.hooks, log |-> s.log, result |-> s.models,
   lookedUp |-> getIdsToLookup(f, d)]

\* select applying the where clauses before the beforeSelect hook
Pipeline_whereFirst(f, d, hs) ==
  Selected(f, d,
    executeRetrieveHook("afterLimit",
      filterLimit(f,
        executeRetrieveHook("afterOrderBy",
          filterOrderBy(f,
            executeRetrieveHook("afterWhere",
              executeRetrieveHook("beforeSelect",
                filterWhere(f,
                  [models |-> records(f, d), hooks |-> hs, log |-> <<>>]))))))))

\* The pipeline on a query whose id filter is finalized and that has no
\* `has` constraint.
Pipeline(f, d, hs) ==
  Selected(f, d,
    executeRetrieveHook("afterLimit",
      filterLimit(f,
        executeRetrieveHook("afterOrderBy",
          filterOrderBy(f,
            executeRetrieveHook("afterWhere",
              filterWhere(f,
                executeRetrieveHook("beforeSelect",
                  [models |-> records(f, d), hooks |-> hs, log |-> <<>>]))))))))

select(q, d, hs) == Pipeline(finalizeIdFilter(q), d, hs)

\* The same selection with the identity index disabled: every key of the
\* table is read and the where clauses the calls recorded decide.
fullScan(q, d) ==
  FilterWhere(q.wheres, Lookup(q, AllKeys(d), d))

-----------------------------------------------------------------------------
(* Operations.  op is the call just made, pre and prehooks the table and   *)
(* the registry it started from, result what it returned (an item is a     *)
(* sequence of at most one element), log the hook calls it made, made the   *)
(* number of reads and mutations made so far.                              *)

Record(k, n) == [id |-> Num(k), name |-> n, type |-> "undefined", dollarId |-> k]

\* Normalized input of one entity: records under their own index id.
Batches(names) ==
  UNION {[S -> names] : S \in SUBSET Ids}

Records(batch) == [k \in DOMAIN batch |-> Record(k, batch[k])]

\* An update: a partial record, or a closure assigning these fields.
Update(closure, id, n) ==
  [closure |-> closure,
   record |-> [id |-> id, name |-> n, type |-> "undefined", dollarId |-> NoKey]]

Done(name, model, arg, r) ==
  /\ op' = [name |-> name, entity |-> model, arg |-> arg]
  /\ pre' = data
  /\ prehooks' = hooks
  /\ data' = r.data
  /\ hooks' = r.hooks
  /\ log' = r.log
  /\ result' = r.result
  /\ made' = made + 1
  /\ UNCHANGED <<lastHookId, localHooks, queryVars, lookedUp, scan>>

Create(model, batch) ==
  Done("create", model, batch, persist(model, Records(batch), "create", data, hooks))

Insert(model, batch) ==
  Done("insert", model, batch, persist(model, Records(batch), "insert", data, hooks))

InsertOrUpdate(model, batch) ==
  Done("insertOrUpdate", model, batch,
       persist(model, Records(batch), "insertOrUpdate", data, hooks))

UpdateMany(model, batch) ==
  Done("updateMany", model, batch, persist(model, Records(batch), "update", data, hooks))

UpdateById(model, change, id) ==
  Done("updateById", model, [update |-> change, id |-> id],
       updateById(model, change, id, data, hooks))

UpdateByCondition(model, change, condition) ==
  Done("updateByCondition", model, [update |-> change, condition |-> condition],
       updateByCondition(model, change, condition, data, hooks))

\* updateByCondition with a closure that computes the primary key
RekeyByCondition(model, change, condition) ==
  Done("rekeyByCondition", model, [update |-> change, condition |-> condition],
       updateByCondition(model, change, condition, data, hooks))

UpdateDone(model, composite, payload, condition, r) ==
  Done("update", model,
       [update |-> payload, condition |-> condition, composite |-> composite,
        raised |-> r.raised], r)

\* update(data, condition) on a query of the model.  The keys of a model
\* with a composite primary key are not integer-like: its table is empty.
\* A lone record that reaches persist carries its primary key.
CallUpdate(model, composite, payload, condition) ==
  /\ composite => data = EmptyMap
  /\ (~payload.array /\ ~payload.closure /\ Falsy(condition)) => payload.record.id # Undef
  /\ UpdateDone(model, composite, payload, condition,
                update(model, composite, payload, condition, data, hooks))

PersistDone(model, batch, method, options, r) ==
  Done("persist", model,
       [batch |-> batch, method |-> method, options |-> options, used |-> r.used], r)

Persist(model, batch, method, options) ==
  PersistDone(model, batch, method, options,
              persistWith(model, Records(batch), method, options, data, hooks))

DeleteById(model, id) ==
  Done("deleteById", model, [id |-> id], deleteById(id, data, hooks))

DeleteByCondition(model, condition) ==
  Done("deleteByCondition", model, [condition |-> condition],
       deleteByCondition(condition, data, hooks))

DeleteAll(model) ==
  Done("deleteAll", model, [id |-> NoKey], deleteAll(model, data, hooks))

Find(model, id) ==
  Done("find", model, [id |-> id],
       [data |-> data, hooks |-> hooks, log |-> <<>>, result |-> find(id, data)])

FindIn(model, idList) ==
  Done("findIn", model, [idList |-> idList],
       [data |-> data, hooks |-> hooks, log |-> <<>>, result |-> findIn(idList, data)])

\* get() of a new query on the entity
All(model) ==
  LET s == select(newQuery(model), data, hooks)
  IN Done("all", model, [id |-> NoKey],
          [data |-> data, hooks |-> s.hooks, log |-> s.log, result |-> s.result])

\* Query.on and Query.off
On(on, callback, once) ==
  /\ lastHookId < MaxHooks
  /\ lastHookId' = lastHookId + 1
  /\ hooks' = [hooks EXCEPT ![on] = Append(@, [id |-> lastHookId + 1,
                                               callback |-> callback, once |-> once])]
  /\ op' = [name |-> "on", entity |-> NoModel, arg |-> [on |-> on]]
  /\ result' = <<>>
  /\ log' = <<>>
  /\ pre' = data
  /\ prehooks' = hooks
  /\ UNCHANGED <<data, localHooks, queryVars, lookedUp, scan, made>>

\* hooks.findIndex(h => h.id === id): 0 stands for -1
findIndex(list, id) ==
  IF \E i \in 1..Len(list) : list[i].id = id
  THEN CHOOSE i \in 1..Len(list) :
         list[i].id = id /\ \A j \in 1..(i - 1) : list[j].id # id
  ELSE 0

\* hooks.splice(index, 1)
splice(list, index) == SubSeq(list, 1, index - 1) \o SubSeq(list, index + 1, Len(list))

\* The events in the order `some` visits them.  Ids are issued once, so at
\* most one event holds the id and the order decides nothing.
EventOrder ==
  <<"beforeCreate", "afterCreate", "beforeUpdate", "afterUpdate", "beforeDelete",
    "afterDelete", "beforeSelect", "afterWhere", "afterOrderBy", "afterLimit">>

\* off removing every hook of the event that holds the id
off_all(hs, id) ==
  [hooks   |-> [on \in Events |-> IF findIndex(hs[on], id) = 0 THEN hs[on] ELSE <<>>],
   removed |-> \E on \in Events : findIndex(hs[on], id) # 0]

\* off: the first event whose list holds the id loses that entry, and the
\* call returns true; false when no list holds it.
off(hs, id) ==
  LET found == {n \in 1..Len(EventOrder) : findIndex(hs[EventOrder[n]], id) # 0}
      first == EventOrder[CHOOSE n \in found : \A o \in found : n <= o]
  IN IF found = {} THEN [hooks |-> hs, removed |-> FALSE]
     ELSE [hooks   |-> [hs EXCEPT ![first] = splice(@, findIndex(@, id))],
           removed |-> TRUE]

Off(id) ==
  /\ hooks' = off(hooks, id).hooks
  /\ op' = [name |-> "off", entity |-> NoModel,
            arg |-> [id |-> id, removed |-> off(hooks, id).removed]]
  /\ result' = <<>>
  /\ log' = <<>>
  /\ pre' = data
  /\ prehooks' = hooks
  /\ UNCHANGED <<data, lastHookId, localHooks, queryVars, lookedUp, scan, made>>

-----------------------------------------------------------------------------
(* The persistence pipeline: one call, of any kind and with any input, on  *)
(* any table that create and insert can have built for the three model     *)
(* variants, with no hook registered.                                      *)

NoLocalHooks == [on \in Events |-> NoHook]

\* The instance create/insert stores for a record of the given model.
Stored1(k, n, model) ==
  [id |-> Num(k), name |-> n, dollarId |-> k, model |-> model,
   type |-> IF model = "Person" THEN "undefined" ELSE getTypeKeyValueFromModel(model)]

Tables ==
  UNION {[S -> Names \X Models] : S \in SUBSET Ids}

Table(t) == [k \in DOMAIN t |-> Stored1(k, t[k][1], t[k][2])]

Start(t, hs, local, name) ==
  /\ data = Table(t)
  /\ hooks = hs
  /\ lastHookId = 0
  /\ localHooks = local
  /\ entity = name
  /\ idFilter = null
  /\ cancelIdFilter = FALSE
  /\ joinedIdFilter = null
  /\ wheres = <<>>
  /\ orders = <<>>
  /\ offsetNumber = 0
  /\ limitNumber = Unlimited
  /\ op = [name |-> "init", entity |-> NoModel, arg |-> [id |-> NoKey]]
  /\ pre = Table(t)
  /\ prehooks = hs
  /\ result = <<>>
  /\ log = <<>>
  /\ lookedUp = <<>>
  /\ scan = <<>>
  /\ made = 0

Init == \E t \in Tables : Start(t, NoHooks, NoLocalHooks, "Person")

Updates ==
  {Update(c, id, n) : c \in BOOLEAN, id \in {Undef} \cup {Num(k) : k \in Ids},
                      n \in {"undefined", "b"}} \ {Update(c, Undef, "undefined") : c \in BOOLEAN}

Conditions == {True} \cup {NameIs(n) : n \in Names}

Rekeyings == {Update(TRUE, v, "undefined") : v \in {Successor, Exchange}}

\* What update is given as data and as condition
UpdateArgs ==
  {[array |-> TRUE, records |-> Records(batch)] : batch \in Batches({"b"})}
    \cup {[array |-> FALSE, closure |-> u.closure, record |-> u.record] : u \in Updates}

UpdateConditions ==
  {NoCondition} \cup {ByPredicate(c) : c \in Conditions}
    \cup {ById(v) : v \in {Num(0), EmptyString} \cup {Num(k) : k \in Ids}
                              \cup {Str(k) : k \in 1..MaxStrId}}

Fresh == op.name = "init"

Next ==
  /\ Fresh
  /\ \/ \E model \in Models, batch \in Batches(Names) : Create(model, batch)
     \/ \E model \in Models, batch \in Batches(Names) : Insert(model, batch)
     \/ \E model \in Models, batch \in Batches(Names \cup {"undefined"}) : InsertOrUpdate(model, batch)
     \/ \E model \in Models, batch \in Batches(Names \cup {"undefined"}) : UpdateMany(model, batch)
     \/ \E model \in Models, change \in Updates, id \in Ids : UpdateById(model, change, id)
     \/ \E model \in Models, change \in Updates, c \in Conditions : UpdateByCondition(model, change, c)
     \/ \E model \in Models, change \in Rekeyings, c \in Conditions : RekeyByCondition(model, change, c)
     \/ \E model \in Models, composite \in BOOLEAN, payload \in UpdateArgs, condition \in UpdateConditions :
          CallUpdate(model, composite, payload, condition)
     \/ \E model \in Models, id \in Ids : DeleteById(model, id)
     \/ \E model \in Models, c \in Conditions : DeleteByCondition(model, c)
     \/ \E model \in Models : DeleteAll(model)
     \/ \E model \in Models, id \in Ids : Find(model, id)
     \/ \E model \in Models, idList \in {<<i, j>> : i, j \in Ids} : FindIn(model, idList)
     \/ \E model \in Models : All(model)

Spec == Init /\ [][Next]_vars

-----------------------------------------------------------------------------
(* Properties of one call *)

\* get() of a new query on the base entity, in the current state
GetAll == select(newQuery("Person"), data, hooks).result

IsUpdate == op.name \in {"updateById", "updateByCondition"}

\* The keys of the records the update call addressed
Matched ==
  IF op.name = "updateById" THEN {op.arg.id} \cap DOMAIN pre
  ELSE {k \in DOMAIN pre : Eval(op.arg.condition, pre[k])}

\* The addressed records whose primary key the update changes
Rekeyed ==
  {k \in Matched : op.arg.update.record.id # Undef /\ ToKey(op.arg.update.record.id) # k}

Count(seq, P(_)) == Cardinality({i \in 1..Len(seq) : P(seq[i])})

\* C2: after an update that changes the primary key of a record, the table
\* holds the instance under the new index key, holds nothing under the old
\* key, and get() returns the record once.
C2_Rekeying ==
  IsUpdate =>
    \A k \in Rekeyed :
      LET id == ToKey(op.arg.update.record.id)
      IN /\ id \in DOMAIN data
         /\ k \notin DOMAIN data
         /\ Count(GetAll, LAMBDA m : m.id = Num(id)) = 1

Derived == op.entity \in Models /\ ~appliedOnBase(op.entity)

\* C3: a query on a derived entity returns only instances of its model and
\* leaves every record of another variant in place and unchanged.
C3_DerivedIsolation ==
  Derived =>
    /\ op.name \in {"find", "findIn", "all"} =>
         \A i \in 1..Len(result) : InstanceOf(result[i], op.entity)
    /\ op.name \in {"updateById", "updateByCondition", "deleteById",
                    "deleteByCondition", "deleteAll", "create"} =>
         \A k \in DOMAIN pre :
           ~InstanceOf(pre[k], op.entity) => k \in DOMAIN data /\ data[k] = pre[k]

\* The results of insertOrUpdate that were in the table before the call
\* (updated) and those that were not (inserted)
Updated(i) == getIndexIdFromRecord(result[i]) \in DOMAIN pre
Inserted(i) == getIndexIdFromRecord(result[i]) \notin DOMAIN pre

NoVeto == \A i \in 1..Len(log) : ~log[i].ret

\* C5: insertOrUpdate merges the records whose id is a key of the table
\* into the stored instance and inserts the others; with no veto it returns
\* one element per input id.
C5_Partition ==
  op.name = "insertOrUpdate" /\ NoVeto =>
    /\ Len(result) = Cardinality(DOMAIN op.arg)
    /\ \A id \in DOMAIN op.arg :
         /\ Count(result, LAMBDA m : m.id = Num(id)) = 1
         /\ id \in DOMAIN data
         /\ \E i \in 1..Len(result) : result[i] = data[id]
         /\ id \in DOMAIN pre =>
              /\ data[id].model = pre[id].model
              /\ data[id].type = pre[id].type
              /\ data[id].name = IF op.arg[id] = "undefined" THEN pre[id].name ELSE op.arg[id]
         /\ id \notin DOMAIN pre =>
              /\ data[id].model = op.entity
              /\ data[id].name = IF op.arg[id] = "undefined" THEN "" ELSE op.arg[id]

C5_Witness ==
  /\ op.name = "insertOrUpdate"
  /\ NoVeto
  /\ \E id \in DOMAIN op.arg : id \in DOMAIN pre /\ op.arg[id] = "undefined"
  /\ \E id \in DOMAIN op.arg : id \notin DOMAIN pre

\* C11: create on a derived entity removes the prior records of that model
\* only; every record of another variant is still there, under the same key
\* and unchanged.
C11_DerivedCreateFrame ==
  (op.name = "create" /\ Derived) =>
    \A k \in DOMAIN pre :
      /\ InstanceOf(pre[k], op.entity) => (k \in DOMAIN data => k \in DOMAIN op.arg)
      /\ ~InstanceOf(pre[k], op.entity) => k \in DOMAIN data /\ data[k] = pre[k]

\* C12: insert and insertOrUpdate keep every key of the table, and the entry
\* of every key that is not an input id.
C12_InsertKeepsRows ==
  op.name \in {"insert", "insertOrUpdate"} =>
    /\ DOMAIN pre \subseteq DOMAIN data
    /\ \A k \in (DOMAIN pre) \ (DOMAIN op.arg) : data[k] = pre[k]

C12_Witness ==
  /\ op.name \in {"insert", "insertOrUpdate"}
  /\ (DOMAIN pre) \ (DOMAIN op.arg) # {}
  /\ DOMAIN op.arg # {}
  /\ data # pre

\* The two malformed calls of update
Malformed ==
  /\ op.name = "update"
  /\ ~op.arg.update.array
  /\ \/ op.arg.update.closure /\ op.arg.condition.kind = "undefined"
     \/ ~op.arg.update.closure /\ op.arg.condition.kind = "id" /\ op.arg.composite

\* C19: a mutator closure with no condition, and a record with a string or
\* number condition on a model whose primary key is composite, raise; and
\* when update raises, the table and the hook registry are as before the
\* call and no hook has been invoked.
C19_MalformedUpdate ==
  op.name = "update" =>
    /\ Malformed => op.arg.raised
    /\ op.arg.raised => data = pre /\ hooks = prehooks /\ log = <<>>

\* The stored records that the condition of the call matches
MatchedByCall ==
  IF op.arg.condition.kind = "id"
  THEN {k \in DOMAIN pre : k = ToKey(op.arg.condition.id)}
  ELSE {k \in DOMAIN pre : Eval(op.arg.condition.condition, pre[k])}

\* C20: update with a mutator closure raises exactly when it is given
\* neither an id nor a predicate; with any id of type number or string, or
\* any predicate, it does not raise, and every matched record has gone
\* through the closure.
C20_ClosureUpdate ==
  (op.name = "update" /\ ~op.arg.update.array /\ op.arg.update.closure) =>
    /\ op.arg.raised <=> op.arg.condition.kind = "undefined"
    /\ (~op.arg.raised /\ op.arg.update.record.id = Undef) =>
         \A k \in MatchedByCall : k \in DOMAIN data /\ data[k].name = op.arg.update.record.name

\* The calls that update stored records with a partial record
IsMerge ==
  \/ op.name \in {"updateMany", "insertOrUpdate"}
  \/ IsUpdate /\ ~op.arg.update.closure

\* The stored records a merge addresses, and the partial record of each
Merged ==
  IF IsUpdate THEN Matched ELSE (DOMAIN op.arg) \cap (DOMAIN pre)

Partial(k) == IF IsUpdate THEN op.arg.update.record ELSE Record(k, op.arg[k])

\* The key under which the merge of the record stored under k belongs
Target(k) == IF Partial(k).id = Undef THEN k ELSE ToKey(Partial(k).id)

\* C23: a non-closure update stores, for each matched record, the record
\* with the fields of the partial record written over it and every other
\* field as it was, as an instance of the model variant the record had.
\* (Two matched records given the same primary key share one entry; the
\* property is stated for the updates that give no two records one key.)
C23_ShallowMerge ==
  (IsMerge /\ \A j, k \in Merged : Target(j) = Target(k) => j = k) =>
    \A k \in Merged :
      /\ Target(k) \in DOMAIN data
      /\ data[Target(k)].id = (IF Partial(k).id = Undef THEN pre[k].id ELSE Partial(k).id)
      /\ data[Target(k)].name =
           (IF Partial(k).name = "undefined" THEN pre[k].name ELSE Partial(k).name)
      /\ data[Target(k)].type = pre[k].type
      /\ data[Target(k)].model = pre[k].model

C23_Witness ==
  /\ op.name = "updateByCondition"
  /\ ~op.arg.update.closure
  /\ op.arg.update.record.id = Undef
  /\ Derived
  /\ \E k \in Matched : pre[k].model # op.entity /\ pre[k].name # data[k].name
  /\ \E k \in Matched : pre[k].model = op.entity

\* C29: update by id returns the updated instance when the id is a key of
\* the table (no hook is registered here, so nothing vetoes), also when the
\* update changes the primary key, and returns nothing only when the id is
\* not a key.
C29_UpdateByIdReturns ==
  op.name = "updateById" =>
    /\ op.arg.id \notin DOMAIN pre <=> result = <<>>
    /\ op.arg.id \in DOMAIN pre =>
         /\ Len(result) = 1
         /\ result[1].id = (IF op.arg.update.record.id = Undef THEN pre[op.arg.id].id
                            ELSE op.arg.update.record.id)
         /\ result[1].name = (IF op.arg.update.record.name = "undefined"
                              THEN pre[op.arg.id].name ELSE op.arg.update.record.name)

\* The records a rekeying closure matched, and the index id each has after
\* the closure ran
Rekeying == {k \in DOMAIN pre : Eval(op.arg.condition, pre[k])}

NewKey(k) == ToKey(Assigned(pre[k], op.arg.update.record.id))

\* C30: when the closure of an update by predicate gives the matched
\* records pairwise distinct primary keys, the collection the update returns
\* holds every matched record once, and the table holds each under its new
\* index id.
C30_RekeyKeepsAll ==
  (op.name = "rekeyByCondition" /\ \A j, k \in Rekeying : NewKey(j) = NewKey(k) => j = k) =>
    /\ Len(result) = Cardinality(Rekeying)
    /\ \A k \in Rekeying :
         /\ Count(result, LAMBDA m : m.id = Num(NewKey(k)) /\ m.name = pre[k].name) = 1
         /\ NewKey(k) \in DOMAIN data
         /\ data[NewKey(k)].id = Num(NewKey(k))
         /\ data[NewKey(k)].name = pre[k].name

\* C27: every key of the table is the index id of the record stored under
\* it.
C27_KeysAreIndexIds ==
  \A k \in DOMAIN data : getIndexIdFromRecord(data[k]) = k

-----------------------------------------------------------------------------
(* Hooks: callbacks are registered and removed, then one call is made on a *)
(* table of base-model records by a query on the base entity.              *)

HookTables == {t \in Tables : \A k \in DOMAIN t : t[k] = <<"a", "Person">>}

\* The model either has no local hook, or a local hook on every mutation
\* event that vetoes the record with primary key 1.
LocalChoices ==
  {NoLocalHooks,
   [on \in Events |-> IF on \in BeforeEvents THEN "veto1"
                      ELSE IF on \in AfterEvents THEN "pass" ELSE NoHook]}

InitHooks == \E t \in HookTables, local \in LocalChoices : Start(t, NoHooks, local, "Person")

Setup == op.name \in {"init", "on", "off"}

HookUpdates == {Update(c, Undef, "b") : c \in BOOLEAN}

NextHooks ==
  /\ Setup
  /\ \/ \E on \in BeforeEvents, callback \in Callbacks, once \in BOOLEAN : On(on, callback, once)
     \/ \E on \in AfterEvents, once \in BOOLEAN : On(on, "pass", once)
     \/ \E id \in 1..MaxHooks : Off(id)
     \/ \E batch \in Batches({"b"}) : Create("Person", batch)
     \/ \E batch \in Batches({"b"}) : Insert("Person", batch)
     \/ \E batch \in Batches({"b"}) : InsertOrUpdate("Person", batch)
     \/ \E batch \in Batches({"b"}) : UpdateMany("Person", batch)
     \/ \E change \in HookUpdates, id \in Ids : UpdateById("Person", change, id)
     \/ \E change \in HookUpdates : UpdateByCondition("Person", change, True)
     \/ \E id \in Ids : DeleteById("Person", id)
     \/ DeleteByCondition("Person", NameIs("a"))
     \/ DeleteAll("Person")

SpecHooks == InitHooks /\ [][NextHooks]_vars

-----------------------------------------------------------------------------
(* Properties of the before-mutation hooks *)

\* The calls of the last operation to the global callbacks of one event
\* for the model with index id k
GlobalCalls(on, k) ==
  SelectSeq(log, LAMBDA c : c.on = on /\ c.key = k /\ c.hook # 0)

Vetoed(on, k) == \E i \in 1..Len(log) : log[i].on = on /\ log[i].key = k /\ log[i].ret

Returned(k) == \E i \in 1..Len(result) : getIndexIdFromRecord(result[i]) = k

GlobalVeto(on, k) == \E i \in 1..Len(GlobalCalls(on, k)) : GlobalCalls(on, k)[i].ret

\* The model with index id k is excluded from the mutation: it is not in the
\* returned collection, a create or insert has not written it, a delete has
\* kept it.
Excluded(k) ==
  /\ ~Returned(k)
  /\ op.name \in {"create", "insert", "insertOrUpdate"} =>
       (k \in DOMAIN data => k \in DOMAIN pre /\ data[k] = pre[k])
  /\ op.name \in {"deleteById", "deleteByCondition", "deleteAll"} =>
       k \in DOMAIN data /\ data[k] = pre[k]

\* The first model a call fires hooks for meets the registry as it was
\* before the call.
First(k) == log # <<>> /\ log[1].key = k

\* C1: the global callbacks of a before-mutation event are invoked for a
\* model in registration order up to the first one that returns false, and
\* a model for which an invoked callback returned false is excluded.
C1_BeforeHooksVeto ==
  \A on \in BeforeEvents : \A k \in Ids :
    LET calls == GlobalCalls(on, k)
    IN /\ \A i, j \in 1..Len(calls) : i < j => calls[i].hook < calls[j].hook
       /\ \A i, j \in 1..Len(calls) : i < j => ~calls[i].ret
       /\ (First(k) /\ calls # <<>> /\ ~GlobalVeto(on, k)) => Len(calls) = Len(prehooks[on])
       /\ GlobalVeto(on, k) => Excluded(k)

\* C10: after create on a base-entity query the table is exactly the new
\* instances that no beforeCreate hook vetoed.
C10_CreateReplaces ==
  (op.name = "create" /\ appliedOnBase(op.entity)) =>
    /\ DOMAIN data = {k \in DOMAIN op.arg : ~Vetoed("beforeCreate", k)}
    /\ \A k \in DOMAIN data :
         /\ data[k].id = Num(k)
         /\ data[k].name = (IF op.arg[k] = "undefined" THEN "" ELSE op.arg[k])
         /\ data[k].model = op.entity

\* C13: delete(predicate) returns the records the predicate accepts and no
\* before-delete hook vetoed, and leaves the others in the table, each
\* under its own key.
C13_DeletePartition ==
  op.name = "deleteByCondition" =>
    LET deleted == {k \in DOMAIN pre : /\ Eval(op.arg.condition, pre[k])
                                       /\ ~Vetoed("beforeDelete", k)}
    IN /\ Len(result) = Cardinality(deleted)
       /\ Range(result) = {pre[k] : k \in deleted}
       /\ data = [k \in (DOMAIN pre) \ deleted |-> pre[k]]

\* The models of the batch of a create or an update, by index id
BatchKeys ==
  CASE op.name \in {"create", "insert", "insertOrUpdate"} -> DOMAIN op.arg
    [] op.name = "updateMany" -> (DOMAIN op.arg) \cap (DOMAIN pre)
    [] op.name = "updateById" -> {op.arg.id} \cap (DOMAIN pre)
    [] op.name = "updateByCondition" ->
         {k \in DOMAIN pre : Eval(op.arg.condition, pre[k])}
    [] OTHER -> {}

\* The after event of the mutation the model under k takes part in
AfterOf(k) ==
  IF op.name \in {"create", "insert"} \/ (op.name = "insertOrUpdate" /\ k \notin DOMAIN pre)
  THEN "afterCreate" ELSE "afterUpdate"

BeforeOf(k) == IF AfterOf(k) = "afterCreate" THEN "beforeCreate" ELSE "beforeUpdate"

Called(on, hookId, k) ==
  \E i \in 1..Len(log) : log[i].on = on /\ log[i].hook = hookId /\ log[i].key = k

\* The table holds for k what it held before the call
Unwritten(k) ==
  IF op.name = "create" THEN k \notin DOMAIN data
  ELSE (k \in DOMAIN data <=> k \in DOMAIN pre) /\ (k \in DOMAIN pre => data[k] = pre[k])

\* C14: a veto on one model of a create or update batch leaves the others
\* written, returned and notified; the vetoed model is not written, not
\* returned and receives no after-hook.
C14_VetoKeepsBatch ==
  \A k \in BatchKeys :
    IF Vetoed(BeforeOf(k), k)
    THEN /\ ~Returned(k)
         /\ Unwritten(k)
         /\ \A i \in 1..Len(log) : ~(log[i].on = AfterOf(k) /\ log[i].key = k)
    ELSE /\ Returned(k)
         /\ k \in DOMAIN data
         /\ \E i \in 1..Len(result) : result[i] = data[k]
         /\ localHooks[AfterOf(k)] # NoHook => Called(AfterOf(k), 0, k)
         /\ \A i \in 1..Len(prehooks[AfterOf(k)]) :
              ~prehooks[AfterOf(k)][i].once => Called(AfterOf(k), prehooks[AfterOf(k)][i].id, k)

\* C28: the table entry of a record that a beforeUpdate hook vetoed is what
\* it was before the update call.
C28_VetoedUpdateFrame ==
  op.name \in {"updateMany", "updateById", "updateByCondition"} =>
    \A k \in BatchKeys :
      Vetoed("beforeUpdate", k) => k \in DOMAIN data /\ data[k] = pre[k]

-----------------------------------------------------------------------------
(* Events: global hooks are registered and removed on a model with or       *)
(* without local hooks, then records are created and read, MaxCalls times. *)

MaxCalls == 2

\* One event of each stage: before a mutation, after it, at retrieval
EventSample == {"beforeCreate", "afterCreate", "afterWhere"}

\* A model with a local hook on every event, none of which vetoes
PassLocalHooks == [on \in Events |-> "pass"]

InitEvents ==
  \E t \in HookTables, local \in {NoLocalHooks, PassLocalHooks} :
    Start(t, NoHooks, local, "Person")

NextEvents ==
  \/ made = 0 /\ \E on \in EventSample, once \in BOOLEAN : On(on, "pass", once)
  \/ made = 0 /\ \E id \in 1..MaxHooks : Off(id)
  \/ made < MaxCalls /\ \E batch \in Batches({"b"}) : Create("Person", batch)
  \/ made < MaxCalls /\ All("Person")

SpecEvents == InitEvents /\ [][NextEvents]_vars

\* Two calls of one firing: the same event for the same model (or for the
\* collection of one select)
SameFiring(i, j) == log[i].on = log[j].on /\ log[i].key = log[j].key

\* C15: in every firing of an event the local hook of the model is called
\* before any global callback.
C15_LocalFirst ==
  /\ \A i, j \in 1..Len(log) : (i < j /\ SameFiring(i, j)) => log[j].hook # 0
  /\ \A j \in 1..Len(log) :
       (log[j].hook # 0 /\ localHooks[log[j].on] # NoHook) =>
         \E i \in 1..(j - 1) : SameFiring(i, j) /\ log[i].hook = 0

C15_Witness ==
  /\ op.name = "create"
  /\ \A on \in {"beforeCreate", "afterCreate"} :
       \E i, j \in 1..Len(log) :
         i < j /\ SameFiring(i, j) /\ log[i].on = on /\ log[i].hook = 0 /\ log[j].hook # 0

\* C16: after an event has fired no entry registered for it is flagged once.
C16_OncePruned ==
  \A on \in Events :
    (\E i \in 1..Len(log) : log[i].on = on) =>
      \A n \in 1..Len(hooks[on]) : ~hooks[on][n].once

\* The ids of the callbacks of afterCreate to be run once, in a registry
OnceAfterCreate(hs) ==
  {hs["afterCreate"][n].id : n \in {x \in 1..Len(hs["afterCreate"]) : hs["afterCreate"][x].once}}

Invocations(lg, id) ==
  Cardinality({i \in 1..Len(lg) : lg[i].on = "afterCreate" /\ lg[i].hook = id})

\* C17: a create that persists a record invokes every once callback of
\* afterCreate one time and unregisters it; a create invokes registered
\* callbacks only, so the next create does not invoke it again.
C17_OnceAfterCreate ==
  [][op'.name = "create" /\ made' = made + 1 =>
       /\ result' # <<>> =>
            \A id \in OnceAfterCreate(hooks) :
              /\ Invocations(log', id) = 1
              /\ findIndex(hooks'["afterCreate"], id) = 0
       /\ \A id \in 1..MaxHooks :
            Invocations(log', id) > 0 => findIndex(hooks["afterCreate"], id) # 0
       /\ (op.name = "create" /\ result # <<>>) =>
            \A id \in OnceAfterCreate(prehooks) : Invocations(log', id) = 0
    ]_vars

C17_Witness ==
  /\ op.name = "create"
  /\ made = MaxCalls
  /\ Len(result) >= 2
  /\ \E id \in OnceAfterCreate(prehooks) : Invocations(log, id) = 1

\* C18: off(id) removes the one hook that carries the id, keeps every other
\* entry of every event in place and in order, and returns true; when no
\* hook carries the id it removes nothing and returns false.
C18_Off ==
  op.name = "off" =>
    LET present == \E on \in Events : findIndex(prehooks[on], op.arg.id) # 0
    IN /\ op.arg.removed = present
       /\ \A on \in Events :
            hooks[on] = SelectSeq(prehooks[on], LAMBDA h : h.id # op.arg.id)
       /\ Cardinality({h.id : h \in UNION {Range(hooks[on]) : on \in Events}}) =
            Cardinality({h.id : h \in UNION {Range(prehooks[on]) : on \in Events}})
              - (IF present THEN 1 ELSE 0)
       /\ ~present => hooks = prehooks

C18_Witness ==
  /\ op.name = "off"
  /\ op.arg.removed
  /\ \E on \in Events : Len(prehooks[on]) = 2 /\ Len(hooks[on]) = 1

-----------------------------------------------------------------------------
(* Registry: global hooks are registered and removed at any time between   *)
(* creates of every record, deletes of the first and reads, MaxCalls of    *)
(* them.                                                                   *)

\* One event of each kind the three executors serve
RegistrySample == {"beforeCreate", "afterDelete", "afterWhere"}

\* The table holds a Person under every id
InitRegistry ==
  \E local \in {NoLocalHooks, PassLocalHooks} :
    Start([k \in Ids |-> <<"a", "Person">>], NoHooks, local, "Person")

NextRegistry ==
  \/ \E on \in RegistrySample, once \in BOOLEAN : On(on, "pass", once)
  \/ \E once \in BOOLEAN : On("beforeCreate", "veto1", once)
  \/ \E id \in 1..MaxHooks : Off(id)
  \/ made < MaxCalls /\ Create("Person", [k \in Ids |-> "b"])
  \/ made < MaxCalls /\ DeleteById("Person", 1)
  \/ made < MaxCalls /\ All("Person")

SpecRegistry == InitRegistry /\ [][NextRegistry]_vars

\* The entries of a list that were not registered to run once
NonOnce(list) == SelectSeq(list, LAMBDA h : ~h.once)

\* The event was fired during the call that left the calls lg
Fired(lg, on) == \E i \in 1..Len(lg) : lg[i].on = on

\* C31: a hook registered with once = false stays in the list of its event,
\* in its place among the other such hooks, through every operation except
\* the off that names its id (on adds to the end only); an operation changes
\* the list of no event it did not fire.
C31_NonOnceStays ==
  [][\A on \in Events :
       /\ op'.name = "off" =>
            NonOnce(hooks'[on]) = SelectSeq(NonOnce(hooks[on]), LAMBDA h : h.id # op'.arg.id)
       /\ op'.name = "on" =>
            /\ Len(NonOnce(hooks'[on])) >= Len(NonOnce(hooks[on]))
            /\ SubSeq(NonOnce(hooks'[on]), 1, Len(NonOnce(hooks[on]))) = NonOnce(hooks[on])
       /\ op'.name \notin {"on", "off"} =>
            /\ NonOnce(hooks'[on]) = NonOnce(hooks[on])
            /\ ~Fired(log', on) => hooks'[on] = hooks[on]
    ]_vars

\* A second or later call fired an event that held a hook to be run once
\* ahead of one to be kept, while another event held a hook to be run once
C31_Witness ==
  /\ op.name \in {"create", "deleteById", "all"}
  /\ made >= 2
  /\ \E on \in Events :
       /\ Fired(log, on)
       /\ Len(prehooks[on]) >= 2
       /\ prehooks[on][1].once
       /\ ~prehooks[on][2].once
       /\ hooks[on] = NonOnce(prehooks[on])
       /\ hooks[on] # <<>>

-----------------------------------------------------------------------------
(* Lookups: update and delete hooks are registered on a model with or      *)
(* without local hooks, then one record is looked up, updated or deleted  *)
(* by id.                                                                  *)

NextLookups ==
  /\ Setup
  /\ \/ \E on \in {"beforeUpdate", "afterUpdate", "beforeDelete", "afterDelete"},
           once \in BOOLEAN : On(on, "pass", once)
     \/ \E id \in Ids : Find("Person", id)
     \/ \E change \in HookUpdates, id \in Ids : UpdateById("Person", change, id)
     \/ \E id \in Ids : DeleteById("Person", id)

SpecLookups == InitHooks /\ [][NextLookups]_vars

\* A single-record operation whose id is not a key of the table
Miss == op.name \in {"find", "updateById", "deleteById"} /\ op.arg.id \notin DOMAIN pre

\* C21: find, update by id and delete by id of an id that is not a key of
\* the table return nothing, leave the table and the hook registry as they
\* were and call no hook.
C21_SoftMiss ==
  Miss => result = <<>> /\ data = pre /\ hooks = prehooks /\ log = <<>>

C21_Witness ==
  /\ Miss
  /\ op.name \in {"updateById", "deleteById"}
  /\ DOMAIN pre # {}
  /\ \E on \in BeforeEvents : hooks[on] # <<>> /\ localHooks[on] # NoHook

-----------------------------------------------------------------------------
(* Persist options: one call of persist with any method and any lists of   *)
(* entities to persist by another method.                                  *)

Methods == {"create", "insert", "update", "insertOrUpdate"}

Options == [Methods -> SUBSET {"Person", "Adult"}]

NextPersist ==
  /\ Fresh
  /\ \E model \in {"Person", "Adult"}, batch \in Batches({"b"}), method \in Methods,
        options \in Options : Persist(model, batch, method, options)

SpecPersist == InitHooks /\ [][NextPersist]_vars

Precedence == <<"create", "insert", "update", "insertOrUpdate">>

\* The overrides whose list holds the entity of the call, by precedence
Listing == {n \in 1..Len(Precedence) : op.entity \in op.arg.options[Precedence[n]]}

\* C24: the method persist uses for the entity of a batch is the first of
\* create, insert, update, insertOrUpdate whose list holds the entity, and
\* the method of the call when no list holds it; the table and the returned
\* collection are those of that method.
C24_PersistMethod ==
  (op.name = "persist" /\ DOMAIN op.arg.batch # {}) =>
    /\ Listing = {} => op.arg.used = op.arg.method
    /\ Listing # {} =>
         op.arg.used = Precedence[CHOOSE n \in Listing : \A o \in Listing : n <= o]
    /\ data = persist(op.entity, Records(op.arg.batch), op.arg.used, pre, prehooks).data
    /\ result = persist(op.entity, Records(op.arg.batch), op.arg.used, pre, prehooks).result

C24_Witness ==
  /\ op.name = "persist"
  /\ op.arg.method = "create"
  /\ op.entity \in op.arg.options["insert"] \cap op.arg.options["update"]
  /\ op.entity \notin op.arg.options["create"]
  /\ "Person" \in op.arg.options["create"]
  /\ (DOMAIN pre) \ (DOMAIN op.arg.batch) # {}
  /\ DOMAIN op.arg.batch # {}
  /\ DOMAIN pre \subseteq DOMAIN data

-----------------------------------------------------------------------------
(* Selection: builder calls on one query instance, then get().             *)

QueryVals == {Num(k) : k \in Ids} \cup {Str(k) : k \in 1..MaxStrId}

Scalars == {Scalar(v) : v \in QueryVals}
\* Arrays of two distinct values: two numbers in ascending order, or a number
\* and the string that addresses the same key
Arrays ==
  {Array(<<Num(ij[1]), Num(ij[2])>>) : ij \in {x \in Ids \X Ids : x[1] < x[2]}}
  \cup {Array(<<Num(j), Str(j)>>) : j \in 1..MaxStrId}
NameValues == {Scalar(n) : n \in Names}

\* The table of the example: record 1 is named "a", the others "b"; record
\* 2 is of the derived model.
QueryTables ==
  {t \in Tables : \A k \in DOMAIN t :
     t[k] = <<IF k = 1 THEN "a" ELSE "b", IF k = 2 THEN "Adult" ELSE "Person">>}

InitQuery ==
  \E t \in QueryTables, name \in {"Person", "Adult"} :
    Start(t, NoHooks, NoLocalHooks, name)

Calls == IF op.name \in {"init", "on"} THEN 0 ELSE op.arg.n

BuiltWith(name, arg, q) ==
  /\ op.name # "get"
  /\ Calls < MaxWheres
  /\ op' = [name |-> name, entity |-> entity, arg |-> arg]
  /\ idFilter' = q.idFilter
  /\ cancelIdFilter' = q.cancelIdFilter
  /\ joinedIdFilter' = q.joinedIdFilter
  /\ wheres' = q.wheres
  /\ orders' = q.orders
  /\ offsetNumber' = q.offsetNumber
  /\ limitNumber' = q.limitNumber
  /\ UNCHANGED <<data, hooks, lastHookId, localHooks, entity,
                 pre, prehooks, result, log, lookedUp, scan, made>>

Built(name, q) == BuiltWith(name, [n |-> Calls + 1], q)

Where(field, value) == Built("where", where(Query, field, value))

OrWhere(field, value) == Built("orWhere", orWhere(Query, field, value))

WhereId(v) == Built("where", whereId(Query, v))

WhereIdIn(values) == Built("where", whereIdIn(Query, values))

WhereFk(field, value) == Built("whereFk", whereFk(Query, field, value))

\* whereFk, the call keeping what it was given
WhereFkOf(field, value) ==
  BuiltWith("whereFk", [n |-> Calls + 1, field |-> field, value |-> value],
            whereFk(Query, field, value))

OrderBy(field, direction) == Built("orderBy", orderBy(Query, field, direction))

Offset(n) == Built("offset", offset(Query, n))

Limit(n) == Built("limit", limit(Query, n))

Get ==
  LET s == select(Query, data, hooks)
  IN /\ op.name # "get"
     /\ op' = [name |-> "get", entity |-> entity, arg |-> [n |-> Calls]]
     /\ idFilter' = s.query.idFilter
     /\ wheres' = s.query.wheres
     /\ hooks' = s.hooks
     /\ result' = s.result
     /\ lookedUp' = s.lookedUp
     /\ scan' = fullScan(Query, data)
     /\ pre' = data
     /\ prehooks' = hooks
     /\ log' = s.log
     /\ UNCHANGED <<data, lastHookId, localHooks, entity, cancelIdFilter, joinedIdFilter,
                    orders, offsetNumber, limitNumber, made>>

NextQuery ==
  \/ \E value \in Scalars \cup Arrays : Where(primaryKey, value)
  \/ \E value \in NameValues : Where("name", value)
  \/ \E value \in Scalars : OrWhere(primaryKey, value)
  \/ \E value \in NameValues : OrWhere("name", value)
  \/ \E v \in QueryVals : WhereId(v)
  \/ \E value \in Arrays : WhereIdIn(value.vals)
  \/ \E value \in Scalars \cup {Array(<<Num(1), Num(2)>>)} : WhereFk(primaryKey, value)
  \/ Get

SpecQuery == InitQuery /\ [][NextQuery]_vars

-----------------------------------------------------------------------------
(* Foreign-key lookups: whereFk on the primary key and on another field,   *)
(* mixed with where and orWhere, then get().                               *)

NextJoined ==
  \/ \E value \in Scalars \cup {Array(<<Num(1), Num(2)>>)} : WhereFkOf(primaryKey, value)
  \/ \E value \in NameValues : WhereFkOf("name", value)
  \/ \E value \in Scalars : Where(primaryKey, value)
  \/ \E value \in NameValues : OrWhere("name", value)
  \/ Get

SpecJoined == InitQuery /\ [][NextJoined]_vars

\* C25: whereFk on the primary key intersects joinedIdFilter with its values
\* and records no where clause; whereFk on another field records an `and`
\* clause and leaves joinedIdFilter alone; where, orWhere and get never
\* change joinedIdFilter, and get looks up keys of joinedIdFilter only.
C25_JoinedIdFilter ==
  [][/\ (op'.name = "whereFk" /\ op'.arg.field = primaryKey) =>
          /\ wheres' = wheres
          /\ joinedIdFilter' # null
          /\ Range(joinedIdFilter') =
               {v \in Range(op'.arg.value.vals) : joinedIdFilter = null \/ Has(joinedIdFilter, v)}
     /\ (op'.name = "whereFk" /\ op'.arg.field # primaryKey) =>
          /\ joinedIdFilter' = joinedIdFilter
          /\ wheres' = Append(wheres, [field |-> op'.arg.field,
                                       value |-> Array(op'.arg.value.vals),
                                       boolean |-> "and"])
     /\ op'.name \in {"where", "orWhere", "get"} => joinedIdFilter' = joinedIdFilter
     /\ (op'.name = "get" /\ joinedIdFilter # null) =>
          Range(lookedUp') \subseteq Range(joinedIdFilter)
    ]_vars

C25_Witness ==
  /\ op.name = "get"
  /\ cancelIdFilter
  /\ Len(wheres) = 1
  /\ joinedIdFilter # null
  /\ Len(joinedIdFilter) = 1
  /\ Cardinality(DOMAIN data) >= 2
  /\ lookedUp = joinedIdFilter
  /\ Len(scan) > Len(result)

-----------------------------------------------------------------------------
(* The stages of select: retrieve hooks that drop the first record they    *)
(* are given are registered, the query is given a where clause, an order,  *)
(* an offset or a limit, then get() is called.                             *)

\* The model has no local hook, or a local afterOrderBy hook
LocalRetrieveChoices ==
  {NoLocalHooks, [on \in Events |-> IF on = "afterOrderBy" THEN "tail" ELSE NoHook]}

InitSelect ==
  \E t \in QueryTables, local \in LocalRetrieveChoices : Start(t, NoHooks, local, "Person")

NextSelect ==
  \/ op.name \in {"init", "on"} /\ \E on \in RetrieveEvents : On(on, "tail", FALSE)
  \/ Where("name", Scalar("b"))
  \/ OrderBy(primaryKey, "desc")
  \/ Offset(1)
  \/ Limit(1)
  \/ Get

SpecSelect == InitSelect /\ [][NextSelect]_vars

\* What a hook stage hands on: the local hook, then the global callbacks in
\* registration order
StageOf(on, models) ==
  Reduce(prehooks[on], IF localHooks[on] = NoHook THEN models ELSE Apply(localHooks[on], models))

Unhooked(on) == localHooks[on] = NoHook /\ prehooks[on] = <<>>

Rank(on) ==
  CASE on = "beforeSelect" -> 1
    [] on = "afterWhere" -> 2
    [] on = "afterOrderBy" -> 3
    [] on = "afterLimit" -> 4

\* C22: get() returns the candidates passed through beforeSelect, the where
\* clauses, afterWhere, the ordering, afterOrderBy, the offset/limit slice
\* and afterLimit, in that order, each stage taking what the previous one
\* returned; hooks are called in the order of their stages; a stage with no
\* hook hands on what it was given.
C22_StageOrder ==
  op.name = "get" =>
    /\ result =
         StageOf("afterLimit",
           FilterLimit(offsetNumber, limitNumber,
             StageOf("afterOrderBy",
               FilterOrderBy(orders,
                 StageOf("afterWhere",
                   FilterWhere(wheres,
                     StageOf("beforeSelect", records(Query, pre))))))))
    /\ \A i, j \in 1..Len(log) : i < j => Rank(log[i].on) <= Rank(log[j].on)
    /\ \A on \in RetrieveEvents :
         /\ Unhooked(on) => \A i \in 1..Len(log) : log[i].on # on
         /\ ~Unhooked(on) => \E i \in 1..Len(log) : log[i].on = on
    /\ (\A on \in RetrieveEvents : Unhooked(on)) =>
         result = FilterLimit(offsetNumber, limitNumber,
                    FilterOrderBy(orders, FilterWhere(wheres, records(Query, pre))))

C22_Witness ==
  /\ op.name = "get"
  /\ wheres # <<>>
  /\ orders # <<>>
  /\ Cardinality(DOMAIN pre) >= 2
  /\ \E i \in 1..Len(log) : log[i].on = "beforeSelect"
  /\ \E on \in RetrieveEvents : Unhooked(on)
  /\ result # <<>>

-----------------------------------------------------------------------------
(* Properties of the identity index *)

\* The same records, each as many times
SameRecords(a, b) ==
  \A m \in Range(a) \cup Range(b) :
    Count(a, LAMBDA x : x = m) = Count(b, LAMBDA x : x = m)

\* C6: for a chain of where, orWhere, whereId and whereIdIn calls, get()
\* returns the records a scan of the whole table filtered by the recorded
\* where clauses returns.
C6_IndexEquivalence ==
  (op.name = "get" /\ joinedIdFilter = null) => SameRecords(result, scan)

\* C26: every record get() returns is the record the table holds under one
\* of its keys.
C26_NoPhantom ==
  op.name = "get" =>
    \A i \in 1..Len(result) : \E k \in DOMAIN data : result[i] = data[k]

NoOr == \A i \in 1..Len(wheres) : wheres[i].boolean # "or"

PkAnds == {i \in 1..Len(wheres) : wheres[i].field = primaryKey /\ wheres[i].boolean = "and"}

\* C7: with no orWhere, idFilter is the intersection of the value sets of
\* the where calls on the primary key, and an empty idFilter makes get()
\* return nothing and look up no key.
C7_Intersection ==
  NoOr =>
    /\ PkAnds = {} => idFilter = null
    /\ PkAnds # {} =>
         /\ idFilter # null
         /\ Range(idFilter) = {v \in QueryVals : \A i \in PkAnds : Has(wheres[i].value.vals, v)}
    /\ (op.name = "get" /\ idFilter = <<>>) => result = <<>> /\ lookedUp = <<>>

C7_Witness ==
  /\ op.name = "get"
  /\ NoOr
  /\ Cardinality(PkAnds) >= 2
  /\ \A i \in PkAnds : wheres[i].value.vals # <<>>
  /\ idFilter = <<>>
  /\ DOMAIN data # {}
  /\ result = <<>>

SomeOr(ws) == \E i \in 1..Len(ws) : ws[i].boolean = "or"

\* where("id", 1).orWhere("id", 2) on a table holding records 1 and 2,
\* after get()
Example8(ws, d) ==
  /\ Len(ws) = 3
  /\ ws[1] = [field |-> primaryKey, value |-> Scalar(Num(1)), boolean |-> "and"]
  /\ ws[2] = [field |-> primaryKey, value |-> Scalar(Num(2)), boolean |-> "or"]
  /\ {1, 2} \subseteq DOMAIN d

\* C8: once orWhere has been called, idFilter is never narrowed again, the
\* keys a select looks up are not taken from it, and the values it held
\* become a membership where clause.
C8_OrWhereCancels ==
  [][/\ SomeOr(wheres') => cancelIdFilter'
     /\ cancelIdFilter => cancelIdFilter' /\ idFilter' \in {idFilter, null}
     /\ (op'.name = "get" /\ cancelIdFilter) =>
          /\ idFilter' = null
          /\ lookedUp' = (IF joinedIdFilter # null THEN joinedIdFilter ELSE AllKeys(data))
          /\ idFilter # null =>
               wheres' = Append(wheres, [field |-> primaryKey, value |-> Array(idFilter),
                                         boolean |-> "and"])
     /\ (op'.name = "get" /\ entity = "Person" /\ joinedIdFilter = null
         /\ Example8(wheres', data)) =>
          \A k \in {1, 2} : Count(result', LAMBDA m : m = data[k]) = 1
    ]_vars

C8_Witness ==
  /\ op.name = "get"
  /\ cancelIdFilter
  /\ entity = "Person"
  /\ joinedIdFilter = null
  /\ Example8(wheres, data)
  /\ Len(result) >= 2

====
